---- MODULE Spec2Model ----
(***************************************************************************)
(* URL-to-attachment conversion pipeline of react-url2file.                *)
(*                                                                         *)
(* The repository holds three generations of handleConvert:                *)
(*   "part_000"  the logging build, with the direct-download retry and the *)
(*               write verification,                                       *)
(*   "part_001"  the build with write verification but no retry,           *)
(*   "App"       src/App.tsx, which writes and counts success at once.     *)
(* All three call downloadFileFromUrl / isValidUrl / getFileNameFromUrl of *)
(* src/utils/fileUtils.ts.  The variable version says which one runs.      *)
(*                                                                         *)
(* Strings that the code inspects (URLs) are tuples of one-character       *)
(* strings, so that trim, URL parsing and file-name extraction are         *)
(* computed.  Every await of the code is one action.                       *)
(***************************************************************************)
EXTENDS Integers, Sequences, FiniteSets, TLC

\* ------------------------------------------------------------------ bounds
MaxRecords == 2

\* runs of handleConvert, one after the other, in the specification of
\* repeated runs
MaxRuns == 2
MaxItems == 2

\* ------------------------------------------------------- program constants
maxSize == 20 * 1024 * 1024

Versions == {"part_000", "part_001", "App"}
HasVerify == {"part_000", "part_001"}

\* JavaScript undefined / absent numeric field
Undefined == -1
\* Date.now(): some timestamp
Now == 1

\* ----------------------------------------------------------------- strings
Letters == {"a", "f", "h", "i", "p", "s", "t", "x", "y", "H", "P", "S", "T"}

\* the URL parser lowercases the letters of a scheme
ToLower(c) ==
  CASE c = "H" -> "h" [] c = "P" -> "p" [] c = "S" -> "s" [] c = "T" -> "t"
    [] OTHER -> c
Space == " "

RECURSIVE TrimLeft(_)
TrimLeft(s) ==
  IF s # <<>> /\ Head(s) = Space THEN TrimLeft(Tail(s)) ELSE s

RECURSIVE TrimRight(_)
TrimRight(s) ==
  IF s # <<>> /\ s[Len(s)] = Space THEN TrimRight(SubSeq(s, 1, Len(s) - 1)) ELSE s

\* String.prototype.trim
Trim(s) == TrimRight(TrimLeft(s))

\* index of the first occurrence of one of the characters cs at or after
\* position from, or Len(s) + 1 when there is none
RECURSIVE IndexOfAny(_, _, _)
IndexOfAny(s, cs, from) ==
  IF from > Len(s) THEN Len(s) + 1
  ELSE IF s[from] \in cs THEN from
  ELSE IndexOfAny(s, cs, from + 1)

\* index of the last occurrence of character c, 0 when there is none
RECURSIVE LastIndexOf(_, _, _)
LastIndexOf(s, c, from) ==
  IF from = 0 THEN 0
  ELSE IF s[from] = c THEN from
  ELSE LastIndexOf(s, c, from - 1)

\* first position at or after from that is not a slash
RECURSIVE SkipSlashes(_, _)
SkipSlashes(s, from) ==
  IF from <= Len(s) /\ s[from] = "/" THEN SkipSlashes(s, from + 1) ELSE from

\* new URL(url): the parser first strips leading and trailing spaces
UrlInput(s) == Trim(s)

\* new URL(url) without a base: the scheme, or <<>> when the text has no
\* scheme (relative path, empty or malformed text) and the constructor throws
UrlScheme(s) ==
  LET u == UrlInput(s)
      c == IndexOfAny(u, {":"}, 1) IN
  IF c > Len(u) \/ c = 1 THEN <<>>
  ELSE IF \A k \in 1..(c - 1) : u[k] \in Letters
       THEN [k \in 1..(c - 1) |-> ToLower(u[k])]
  ELSE <<>>

SpecialSchemes == {<<"h", "t", "t", "p">>, <<"h", "t", "t", "p", "s">>, <<"f", "t", "p">>}

\* start and end (exclusive) of the host of a special-scheme URL
UrlHostStart(s) == SkipSlashes(UrlInput(s), Len(UrlScheme(s)) + 2)
UrlHostEnd(s) == IndexOfAny(UrlInput(s), {"/", "?", "#"}, UrlHostStart(s))
UrlHost(s) == SubSeq(UrlInput(s), UrlHostStart(s), UrlHostEnd(s) - 1)

\* does new URL(url) return (TRUE) or throw (FALSE)
UrlParses(s) ==
  /\ UrlScheme(s) # <<>>
  /\ UrlScheme(s) \in SpecialSchemes =>
       /\ UrlHost(s) # <<>>
       /\ \A k \in 1..Len(UrlHost(s)) : UrlHost(s)[k] # Space

isValidUrlNoScheme(url) ==
  url # <<>> /\ UrlParses(url)

\* fileUtils.ts isValidUrl
isValidUrlHttpOnly(url) ==
  url # <<>> /\ UrlParses(url) /\ UrlScheme(url) = <<"h", "t", "t", "p">>

isValidUrl(url) ==
  IF url = <<>> THEN FALSE
  ELSE IF ~UrlParses(url) THEN FALSE
  ELSE UrlScheme(url) \in {<<"h", "t", "t", "p">>, <<"h", "t", "t", "p", "s">>}

\* URL.pathname of a parsed special-scheme URL
UrlPathname(s) ==
  LET u == UrlInput(s)
      b == UrlHostEnd(s)
      e == IndexOfAny(u, {"?", "#"}, b)
  IN IF b > Len(u) \/ u[b] # "/" THEN <<"/">> ELSE SubSeq(u, b, e - 1)

FileLiteral == <<"f", "i", "l", "e">>

\* fileUtils.ts getFileNameFromUrl (no percent sign in the modelled
\* alphabet, so decodeURIComponent has nothing to decode and never throws)
getFileNameFromUrl(url) ==
  IF ~UrlParses(url) THEN FileLiteral
  ELSE LET p == UrlPathname(url)
           k == LastIndexOf(p, "/", Len(p))
           fileName == SubSeq(p, k + 1, Len(p))
       IN IF fileName = <<>> THEN FileLiteral ELSE fileName

\* --------------------------------------------------------- modelled inputs
UrlPng == <<"h", "t", "t", "p", "s", ":", "/", "/", "a", "/", "i", ".", "p">>
UrlHttpDir == <<"h", "t", "t", "p", ":", "/", "/", "a", "/">>
UrlFtp == <<"f", "t", "p", ":", "/", "/", "x", "/", "y">>
UrlRelative == <<"a", "/", "i">>
UrlPadded == <<Space>> \o UrlPng \o <<Space>>
Blank == <<Space, Space>>

\* a JavaScript value of a segment field (link / text) or of a plain cell
JsUndefined == [kind |-> "undefined", str |-> <<>>]
JsNull == [kind |-> "null", str |-> <<>>]
JsNumber == [kind |-> "number", str |-> <<>>]
JsString(s) == [kind |-> "string", str |-> s]

\* truthiness of a scalar JavaScript value (the modelled number is non-zero)
Truthy(v) ==
  \/ v.kind = "number"
  \/ v.kind = "string" /\ v.str # <<>>

\* a || b || null  on two scalar values
OrElseNull(a, b) == IF Truthy(a) THEN a ELSE IF Truthy(b) THEN b ELSE JsNull

\* element of an array cell value: a segment object, a string, or a scalar
Segment(link, text) == [kind |-> "object", str |-> <<>>, link |-> link, text |-> text]
Scalar(v) == [kind |-> v.kind, str |-> v.str, link |-> JsUndefined, text |-> JsUndefined]

\* cell value: scalar, single segment object, or array of elements
CellScalar(v) == [kind |-> v.kind, str |-> v.str, link |-> JsUndefined,
                  text |-> JsUndefined, items |-> <<>>]
CellObject(link, text) == [kind |-> "object", str |-> <<>>, link |-> link,
                           text |-> text, items |-> <<>>]
CellArray(items) == [kind |-> "array", str |-> <<>>, link |-> JsUndefined,
                     text |-> JsUndefined, items |-> items]

\* urlValue before the source cell is read, and after the URL was taken out
\* of it (the value is not used past the extraction)
NoValue == CellScalar(JsUndefined)

SourceValues ==
  { CellScalar(JsNull),
    CellScalar(JsString(UrlPng)),
    CellScalar(JsString(UrlPadded)),
    CellScalar(JsString(UrlFtp)),
    CellScalar(JsString(Blank)),
    CellScalar(JsNumber),
    CellArray(<<>>),
    CellArray(<<Segment(JsString(UrlPng), JsString(UrlFtp)), Scalar(JsString(UrlFtp))>>),
    CellArray(<<Segment(JsUndefined, JsString(UrlPng))>>),
    CellArray(<<Scalar(JsString(UrlRelative))>>),
    CellObject(JsUndefined, JsUndefined),
    CellObject(JsNumber, JsString(UrlPng)) }

\* handleConvert, extraction of url from urlValue (before the emptiness test)
ExtractUrlTextFirst(cellValue) ==
  IF cellValue.kind \in {"null", "undefined"} THEN JsNull
  ELSE IF cellValue.kind = "string" THEN
         (IF cellValue.str = <<>> THEN JsNull ELSE JsString(cellValue.str))
  ELSE IF cellValue.kind = "array" /\ Len(cellValue.items) > 0 THEN
         LET firstItem == cellValue.items[1] IN
         IF firstItem.kind = "object" THEN OrElseNull(firstItem.text, firstItem.link)
         ELSE IF firstItem.kind = "string" THEN JsString(firstItem.str)
         ELSE JsNull
  ELSE IF cellValue.kind \in {"array", "object"} THEN OrElseNull(cellValue.text, cellValue.link)
  ELSE JsNull

ExtractUrl(cellValue) ==
  IF cellValue.kind \in {"null", "undefined"} THEN JsNull
  ELSE IF cellValue.kind = "string" THEN
         (IF cellValue.str = <<>> THEN JsNull ELSE JsString(cellValue.str))
  ELSE IF cellValue.kind = "array" /\ Len(cellValue.items) > 0 THEN
         LET firstItem == cellValue.items[1] IN
         IF firstItem.kind = "object" THEN OrElseNull(firstItem.link, firstItem.text)
         ELSE IF firstItem.kind = "string" THEN JsString(firstItem.str)
         ELSE JsNull
  ELSE IF cellValue.kind \in {"array", "object"} THEN OrElseNull(cellValue.link, cellValue.text)
  ELSE JsNull

\* !url || typeof url !== 'string' || !url.trim()
UrlIsEmptyNoTrim(url) ==
  ~Truthy(url) \/ url.kind # "string"

UrlIsEmpty(url) ==
  ~Truthy(url) \/ url.kind # "string" \/ Trim(url.str) = <<>>

\* ------------------------------------------------------------- attachments
OctetStream == "application/octet-stream"

\* an attachment object; absent fields are Undefined / "" / <<>>
Attachment(token, file_token, name, size, type, timeStamp) ==
  [token |-> token, file_token |-> file_token, name |-> name,
   size |-> size, type |-> type, timeStamp |-> timeStamp]

\* attachments the target cells may hold before a run
OldAttachment == Attachment(50, Undefined, <<"x">>, 7, "image/png", Now)
BareAttachment == Attachment(51, Undefined, <<>>, Undefined, "", Undefined)
InitialCells == {<<>>, <<BareAttachment, OldAttachment>>}

\* what table.getCellValue returns for an attachment cell
NullValue == [kind |-> "null", items |-> <<>>]
NonList == [kind |-> "nonlist", items |-> <<>>]
ListValue(items) == [kind |-> "list", items |-> items]

\* x && Array.isArray(x)
IsList(v) == v.kind = "list"

\* a Blob: size and type
NoBlob == [size |-> Undefined, type |-> ""]

\* attachmentItem of the three builds
AttachmentItem(v, fileToken, fileName, blob) ==
  IF v = "App"
  THEN Attachment(Undefined, fileToken, fileName, Undefined, "", Undefined)
  ELSE Attachment(fileToken, Undefined, fileName, blob.size,
                  IF blob.type = "" THEN OctetStream ELSE blob.type, Now)

\* normalisation of one existing attachment in the append branch
NormalizeExisting(att) ==
  IF att.token # Undefined
  THEN Attachment(att.token, Undefined,
                  IF att.name = <<>> THEN FileLiteral ELSE att.name,
                  IF att.size \in {Undefined, 0} THEN 0 ELSE att.size,
                  IF att.type = "" THEN OctetStream ELSE att.type,
                  IF att.timeStamp = Undefined THEN Now ELSE att.timeStamp)
  ELSE att

\* if (!overwrite && currentAttachments && Array.isArray(..) && length > 0)
SkipExistingNever(ow, currentAttachments) == FALSE

SkipExistingSingle(ow, currentAttachments) ==
  ~ow /\ IsList(currentAttachments) /\ Len(currentAttachments.items) = 1

SkipExistingWhenOverwrite(ow, currentAttachments) ==
  ow /\ IsList(currentAttachments) /\ Len(currentAttachments.items) > 0

SkipExisting(ow, currentAttachments) ==
  ~ow /\ IsList(currentAttachments) /\ Len(currentAttachments.items) > 0

\* the array handed to setCellValue
AttachmentsToSetForgetsNew(v, ow, currentAttachments, item) ==
  IF ow \/ ~IsList(currentAttachments) THEN <<item>>
  ELSE currentAttachments.items

AttachmentsToSetAlwaysAppends(v, ow, currentAttachments, item) ==
  IF ~IsList(currentAttachments) \/ Len(currentAttachments.items) = 0
  THEN <<item>>
  ELSE currentAttachments.items \o <<item>>

AttachmentsToSet(v, ow, currentAttachments, item) ==
  IF ow \/ ~IsList(currentAttachments) \/ Len(currentAttachments.items) = 0
  THEN <<item>>
  ELSE IF v = "App" THEN currentAttachments.items \o <<item>>
  ELSE [k \in 1..Len(currentAttachments.items) |->
          NormalizeExisting(currentAttachments.items[k])] \o <<item>>

\* verifyAttachments.some(att => att && att.token === fileToken)
HasNewAttachment(verifyAttachments, fileToken) ==
  \E k \in 1..Len(verifyAttachments.items) :
     verifyAttachments.items[k].token = fileToken

ExpectedCount(ow, currentAttachments) ==
  IF ow THEN 1
  ELSE (IF IsList(currentAttachments) THEN Len(currentAttachments.items) ELSE 0) + 1

\* classification of the read-back after the write (part_000 / part_001)
VerifyOutcomeTokenOnly(ow, currentAttachments, verifyAttachments, fileToken) ==
  IF IsList(verifyAttachments) /\ HasNewAttachment(verifyAttachments, fileToken)
  THEN "success" ELSE "failed"

VerifyOutcomeLenient(ow, currentAttachments, verifyAttachments, fileToken) ==
  IF IsList(verifyAttachments) /\ Len(verifyAttachments.items) > 0
       /\ ~HasNewAttachment(verifyAttachments, fileToken)
       /\ Len(verifyAttachments.items) < ExpectedCount(ow, currentAttachments)
  THEN "failed" ELSE "success"

VerifyOutcomeStrictAppend(ow, currentAttachments, verifyAttachments, fileToken) ==
  IF IsList(verifyAttachments)
  THEN IF HasNewAttachment(verifyAttachments, fileToken) THEN "success"
       ELSE IF Len(verifyAttachments.items) > 0
                 /\ Len(verifyAttachments.items) >= ExpectedCount(ow, currentAttachments)
            THEN "success" ELSE "failed"
  ELSE "failed"

VerifyOutcomeFoundFails(ow, currentAttachments, verifyAttachments, fileToken) ==
  IF IsList(verifyAttachments) /\ ~HasNewAttachment(verifyAttachments, fileToken)
       /\ Len(verifyAttachments.items) >= ExpectedCount(ow, currentAttachments)
  THEN "success" ELSE "failed"

VerifyOutcome(ow, currentAttachments, verifyAttachments, fileToken) ==
  IF IsList(verifyAttachments)
  THEN IF HasNewAttachment(verifyAttachments, fileToken) THEN "success"
       ELSE IF Len(verifyAttachments.items) > 0
            THEN (IF Len(verifyAttachments.items) >= ExpectedCount(ow, currentAttachments)
                  THEN "success" ELSE "failed")
            ELSE "failed"
  ELSE IF ow THEN "failed" ELSE "success"

\* ------------------------------------------------------------------- HTTP
\* a Response: status, content-length header (Undefined when absent),
\* size of the body and its content type
Response(status, contentLength, size, type) ==
  [status |-> status, contentLength |-> contentLength, size |-> size, type |-> type]

NoResponse == Response(0, Undefined, Undefined, "")

Responses ==
  { Response(200, Undefined, 10240, "image/png"),
    Response(200, 10240, 10240, "image/png"),
    Response(200, Undefined, 0, ""),
    Response(200, Undefined, maxSize, ""),
    Response(200, Undefined, maxSize + 1, "image/png"),
    Response(200, maxSize + 1, maxSize + 1, "image/png"),
    Response(404, Undefined, 9, ""),
    Response(500, Undefined, 9, "") }

\* response.ok
Ok(r) == r.status >= 200 /\ r.status <= 299

\* An error message is the set of the substrings handleConvert (part_000)
\* searches it for: "500", "HTTPError" (the text 'HTTP' + 'cuowu' of
\* fileUtils.ts:110), "serverError", "CORS" and "proxy" (the text 'daili' of
\* fileUtils.ts:93).  The message of a transport exception is host defined.
TransportMessages == {{}, {"500"}}

\* message of the Error thrown for a failed direct GET (fileUtils.ts:93)
CorsMessage(m) == {"CORS", "proxy"} \cup m

\* message of the Error thrown for a non-ok response (fileUtils.ts:110)
HttpMessage(r) == {"HTTPError"} \cup (IF r.status = 500 THEN {"500"} ELSE {})

\* "File size (..MB) exceeds 20M" and the empty-file message: the sizes of
\* Responses render as 20.00MB, none of the searched substrings occurs
PlainMessage == {}

\* what the catch of part_000 (lines 335-364) does with the first failure
ClassifyDownloadError(v, proxyCall, msg) ==
  IF v # "part_000" \/ ~proxyCall THEN "failed"
  ELSE IF "500" \in msg \/ "HTTPError" \in msg \/ "serverError" \in msg THEN "failed"
  ELSE IF "CORS" \in msg \/ "proxy" \in msg THEN "retry"
  ELSE "failed"

\* which try block receives an exception raised while a record is processed:
\* "record" (the catch inside the loop) or "run" (the catch around the loop)
HandlerOfRunOnly(stage) == "run"

HandlerOf(stage) == IF stage = "getRecords" THEN "run" ELSE "record"

\* does the build count skipped records (App.tsx has no skippedCount)
CountsSkippedNever(v) == FALSE

CountsSkipped(v) == v \in {"part_000", "part_001"}

\* ------------------------------------------------------------------ state
RecordIdLists ==
  UNION { [1..n -> 0..MaxRecords] : n \in 0..MaxRecords }

\* lists the host can return: position k holds record id k or the empty id 0
VisibleLists == { l \in RecordIdLists : \A k \in 1..Len(l) : l[k] \in {0, k} }

\* calls made for the record in hand; late counts the GETs issued after a
\* direct GET raised, relayStatus is the status the relay answered with (0
\* when it was not asked or its GET raised)
NoCalls == [src |-> 0, tgt |-> 0, relay |-> 0, direct |-> 0, body |-> 0,
            field |-> 0, upload |-> 0, write |-> 0, verify |-> 0, late |-> 0,
            relayStatus |-> 0]

\* values of the form: for tableId, viewId, urlFieldId and attachmentFieldId
\* whether the value is there (TRUE) or missing (FALSE)
FormValues ==
  [tableId : BOOLEAN, viewId : BOOLEAN, urlFieldId : BOOLEAN,
   attachmentFieldId : BOOLEAN]

\* handleConvert was not called yet
NoValues ==
  [tableId |-> FALSE, viewId |-> FALSE, urlFieldId |-> FALSE,
   attachmentFieldId |-> FALSE]

\* if (!tableId) ...; if (!viewId) ...; if (!urlFieldId || !attachmentFieldId)
FormCompleteNoView(v) == v.tableId /\ v.urlFieldId /\ v.attachmentFieldId

FormComplete(v) ==
  v.tableId /\ v.viewId /\ v.urlFieldId /\ v.attachmentFieldId

VARIABLES
  version,            \* which build of handleConvert runs
  tgtCell,            \* host: attachment cell of every record
  pc,                 \* position of handleConvert
  overwrite,          \* values.overwrite of the run that started last
  values,             \* which of the required form values the call was given
  recordIds, i,       \* the list and the number of loop iterations finished
  successCount, failedCount, skippedCount,
  progress, processing,
  urlValue, trimmedUrl, currentAttachments,
  useProxy, response, blob,
  fileToken, attachmentsToSet, verifyAttachments,
  nextToken,          \* host: next upload token
  \* history of the record in hand, kept for the properties
  outcome, decided, calls, raised, preCell, aborted,
  relay,              \* the relay function serving one request (part_002)
  run2,               \* a second invocation of handleConvert
  runs,               \* overwrite flag and last outcome of the runs that ended
  fn                  \* a call of a pure function: operation, argument, result

vars == <<version, tgtCell, pc, overwrite, values, recordIds, i,
          successCount, failedCount, skippedCount, progress, processing,
          urlValue, trimmedUrl, currentAttachments, useProxy, response, blob,
          fileToken, attachmentsToSet, verifyAttachments, nextToken,
          outcome, decided, calls, raised, preCell, aborted, relay, run2,
          runs, fn>>

hostVars == <<version, tgtCell, nextToken>>
countVars == <<successCount, failedCount, skippedCount>>
localVars == <<urlValue, trimmedUrl, currentAttachments, useProxy, response, blob,
               fileToken, attachmentsToSet, verifyAttachments>>
histVars == <<outcome, decided, calls, raised, preCell, aborted>>
sideVars == <<relay, run2, runs, fn>>
convertVars == <<hostVars, pc, overwrite, values, recordIds, i, countVars,
                 progress, processing, localVars, histVars>>

\* part_002 handler(req, res): the request as it arrives; target is the
\* response of the outbound fetch, buffer the length of the body read from
\* it, status / headers / contentType / contentLength / body what res was
\* given (body: "none", "json" or the number of bytes sent; keys: the
\* properties of a JSON body)
RelayRequest(method, url) ==
  [pc |-> "method", method |-> method, url |-> url, outbound |-> 0,
   target |-> NoResponse, buffer |-> Undefined, status |-> 0, headers |-> {},
   contentType |-> "", contentLength |-> Undefined, body |-> "none",
   keys |-> {}]

\* no request at the relay
NoRelay == [RelayRequest("GET", JsUndefined) EXCEPT !.pc = "off"]

\* the pieces a URL text is put together from
NoParts == [pad |-> <<>>, scheme |-> <<>>, slashes |-> <<>>, host |-> <<>>,
            path |-> <<>>, tail |-> <<>>]

\* no pure function called
NoCall == [op |-> "none", cell |-> NoValue, arg |-> JsUndefined,
           parts |-> NoParts, out |-> JsNull, url |-> JsNull, valid |-> FALSE]

\* no second invocation of handleConvert; its locals once it runs
NoRun2 == [pc |-> "off", i |-> 0, currentAttachments |-> NullValue,
           attachmentsToSet |-> <<>>, successCount |-> 0]

ConvertInit ==
  /\ version \in Versions
  /\ tgtCell \in [1..MaxRecords -> InitialCells]
  /\ pc = "idle"
  /\ overwrite = FALSE
  /\ values = NoValues
  /\ recordIds = <<>>
  /\ i = 0
  /\ successCount = 0 /\ failedCount = 0 /\ skippedCount = 0
  /\ progress = [current |-> 0, total |-> 0, success |-> 0, failed |-> 0]
  /\ processing = FALSE
  /\ urlValue = NoValue
  /\ trimmedUrl = <<>>
  /\ currentAttachments = NullValue
  /\ useProxy = TRUE
  /\ response = NoResponse
  /\ blob = NoBlob
  /\ fileToken = Undefined
  /\ attachmentsToSet = <<>>
  /\ verifyAttachments = NullValue
  /\ nextToken = 1
  /\ outcome = "none" /\ decided = 0 /\ calls = NoCalls /\ raised = {}
  /\ preCell = <<>> /\ aborted = FALSE

Init ==
  /\ relay = NoRelay
  /\ run2 = NoRun2
  /\ runs = <<>>
  /\ fn = NoCall
  /\ ConvertInit

\* ---------------------------------------------------------------- helpers
\* id of the record in hand (0 is the empty id)
recordIdFirst == recordIds[1]

recordId == recordIds[i + 1]

\* what table.getCellValue can return for an attachment cell: the stored
\* list, and for a cell without attachments also null or a non-list value
HostRead(cell) ==
  IF cell = <<>> THEN {NullValue, ListValue(<<>>), NonList}
  ELSE {ListValue(cell)}

\* the host re-keys the token of the attachment written last (token + 100)
Rekey(items) ==
  [k \in 1..Len(items) |->
     IF k < Len(items) THEN items[k]
     ELSE [items[k] EXCEPT
             !.token = IF @ = Undefined THEN @ ELSE @ + 100,
             !.file_token = IF @ = Undefined THEN @ ELSE @ + 100]]

\* effects of setCellValue that returns without raising
HostWrite(cell, items) == {items, Rekey(items), cell}

\* for (let i = 0; i < recordIds.length; i++): the index after a record
\* ended with outcome oc
NextIndexRetryFailed(k, oc) == IF oc = "failed" THEN k ELSE k + 1

NextIndex(k, oc) == k + 1

\* const currentIndex = i + 1, shown as progress.current when record k starts
CurrentOnStartStale(k) == k

CurrentOnStart(k) == k + 1

\* the outcome of the record in hand is decided: count it and go on with the
\* next index.  sync: the path calls setProgress with the counter (part_000)
Decide(oc, sync) ==
  /\ successCount' = IF oc = "success" THEN successCount + 1 ELSE successCount
  /\ failedCount' = IF oc = "failed" THEN failedCount + 1 ELSE failedCount
  /\ skippedCount' = IF oc = "skipped" /\ CountsSkipped(version)
                     THEN skippedCount + 1 ELSE skippedCount
  /\ progress' = IF sync /\ version = "part_000" /\ oc = "success"
                 THEN [progress EXCEPT !.success = successCount + 1]
                 ELSE IF sync /\ version = "part_000" /\ oc = "failed"
                 THEN [progress EXCEPT !.failed = failedCount + 1]
                 ELSE progress
  /\ i' = NextIndex(i, oc)
  /\ pc' = "loopHead"
  /\ outcome' = oc
  /\ decided' = decided + 1
  /\ UNCHANGED <<processing, aborted>>

\* finally { setProcessing(false) }
ProcessingAfterFinallyKept == processing

ProcessingAfterFinally == FALSE

\* the catch around the whole run, and its finally
Abort ==
  /\ pc' = "done"
  /\ aborted' = TRUE
  /\ processing' = ProcessingAfterFinally
  /\ UNCHANGED <<countVars, progress, i, outcome, decided>>

\* an awaited call of the given stage raises
Raise(stage) ==
  /\ raised' = raised \cup {stage}
  /\ IF HandlerOf(stage) = "record" THEN Decide("failed", TRUE) ELSE Abort

\* downloadFileFromUrl throws an Error with message msg
DownloadError(msg) ==
  IF ClassifyDownloadError(version, useProxy, msg) = "retry"
  THEN /\ useProxy' = FALSE
       /\ response' = NoResponse
       /\ pc' = "directGet"
       /\ UNCHANGED <<countVars, progress, processing, i, outcome, decided, aborted>>
  ELSE /\ Decide("failed", TRUE)
       /\ UNCHANGED <<useProxy, response>>

Count(stage) == [calls EXCEPT ![stage] = @ + 1]

\* ---------------------------------------------------------------- actions
\* handleConvert is called with the form values
\* setProgress({ current: 0, total: 0, success: 0, failed: 0 })
ZeroProgressKept == progress

ZeroProgress == [current |-> 0, total |-> 0, success |-> 0, failed |-> 0]

Submit ==
  /\ pc = "idle"
  /\ \E v \in FormValues, ow \in BOOLEAN :
       /\ values' = v
       /\ IF FormComplete(v)
          THEN /\ overwrite' = ow
               /\ processing' = TRUE
               /\ progress' = ZeroProgress
               /\ pc' = "getRecords"
          ELSE /\ pc' = "rejected"
               /\ UNCHANGED <<overwrite, processing, progress>>
  /\ UNCHANGED <<hostVars, recordIds, i, countVars, localVars, histVars>>
  /\ UNCHANGED sideVars

\* what getVisibleRecordIdList can answer: any list in the first run, and
\* in a later run the list of the run before (the view is left as it was)
ViewLists == IF runs = <<>> THEN VisibleLists ELSE {recordIds}

\* if (total === 0)
EmptyListNever(l) == FALSE

EmptyList(l) == Len(l) = 0

\* getTableById, getViewById, getVisibleRecordIdList
GetRecords ==
  /\ pc = "getRecords"
  /\ \/ /\ Raise("getRecords")
        /\ UNCHANGED recordIds
     \/ \E l \in ViewLists :
          /\ recordIds' = l
          /\ IF EmptyList(l)
             THEN /\ processing' = FALSE
                  /\ pc' = "done"
                  /\ progress' = [progress EXCEPT !.total = 0]
             ELSE /\ pc' = "loopHead"
                  /\ progress' = [current |-> 0, total |-> Len(l),
                                  success |-> 0, failed |-> 0]
                  /\ UNCHANGED processing
          /\ i' = 0
          /\ successCount' = 0 /\ failedCount' = 0 /\ skippedCount' = 0
          /\ UNCHANGED histVars
  /\ UNCHANGED <<hostVars, overwrite, values, localVars, calls, preCell>>
  /\ UNCHANGED sideVars

\* for-loop test fails: summary, finally
EndOfRun ==
  /\ pc = "loopHead"
  /\ i >= Len(recordIds)
  /\ progress' = [progress EXCEPT !.success = successCount, !.failed = failedCount]
  /\ processing' = ProcessingAfterFinally
  /\ pc' = "done"
  /\ UNCHANGED <<hostVars, overwrite, values, recordIds, i, countVars, localVars, histVars>>
  /\ UNCHANGED sideVars

\* if (!recordId) ... continue
SkipEmptyId ==
  /\ pc = "loopHead"
  /\ i < Len(recordIds)
  /\ recordId = 0
  /\ skippedCount' = IF CountsSkipped(version) THEN skippedCount + 1 ELSE skippedCount
  /\ progress' = IF version = "part_000"
                 THEN [progress EXCEPT !.current = i + 1] ELSE progress
  /\ i' = NextIndex(i, "skipped")
  /\ outcome' = "skipped"
  /\ decided' = decided + 1
  /\ calls' = NoCalls
  /\ raised' = {}
  /\ preCell' = <<>>
  /\ UNCHANGED <<hostVars, pc, overwrite, values, recordIds, successCount, failedCount,
                 processing, localVars, aborted>>
  /\ UNCHANGED sideVars

\* a record with an id is taken in hand
StartRecord ==
  /\ pc = "loopHead"
  /\ i < Len(recordIds)
  /\ recordId # 0
  /\ progress' = [progress EXCEPT !.current = CurrentOnStart(i)]
  /\ pc' = "readSource"
  /\ urlValue' = NoValue
  /\ trimmedUrl' = <<>>
  /\ currentAttachments' = NullValue
  /\ useProxy' = TRUE
  /\ response' = NoResponse
  /\ blob' = NoBlob
  /\ fileToken' = Undefined
  /\ attachmentsToSet' = <<>>
  /\ verifyAttachments' = NullValue
  /\ outcome' = "none"
  /\ calls' = NoCalls
  /\ raised' = {}
  /\ preCell' = tgtCell[recordId]
  /\ UNCHANGED <<hostVars, overwrite, values, recordIds, i, countVars, processing,
                 decided, aborted>>
  /\ UNCHANGED sideVars

\* table.getCellValue(urlFieldId, recordId), extraction, trim, validation
ReadSource ==
  /\ pc = "readSource"
  /\ calls' = Count("src")
  /\ \/ /\ Raise("src")
        /\ UNCHANGED <<urlValue, trimmedUrl>>
     \/ \E v \in SourceValues :
          LET url == ExtractUrl(v) IN
          /\ UNCHANGED raised
          /\ IF UrlIsEmpty(url)
             THEN /\ Decide("skipped", FALSE)
                  /\ urlValue' = v
                  /\ UNCHANGED trimmedUrl
             ELSE /\ trimmedUrl' = Trim(url.str)
                  /\ IF ~isValidUrl(Trim(url.str))
                     THEN /\ Decide("failed", FALSE)
                          /\ urlValue' = v
                     ELSE /\ pc' = "readTarget"
                          /\ urlValue' = NoValue
                          /\ UNCHANGED <<countVars, progress, processing, i,
                                         outcome, decided, aborted>>
  /\ UNCHANGED <<hostVars, overwrite, values, recordIds, currentAttachments, useProxy,
                 response, blob, fileToken, attachmentsToSet, verifyAttachments,
                 preCell>>
  /\ UNCHANGED sideVars

\* table.getCellValue(attachmentFieldId, recordId) and the skip test
ReadTarget ==
  /\ pc = "readTarget"
  /\ calls' = Count("tgt")
  /\ \/ /\ Raise("tgt")
        /\ UNCHANGED currentAttachments
     \/ \E v \in HostRead(tgtCell[recordId]) :
          /\ currentAttachments' = v
          /\ UNCHANGED raised
          /\ IF SkipExisting(overwrite, v)
             THEN Decide("skipped", FALSE)
             ELSE /\ pc' = "relayGet"
                  /\ UNCHANGED <<countVars, progress, processing, i,
                                 outcome, decided, aborted>>
  /\ UNCHANGED <<hostVars, overwrite, values, recordIds, urlValue, trimmedUrl, useProxy,
                 response, blob, fileToken, attachmentsToSet, verifyAttachments,
                 preCell>>
  /\ UNCHANGED sideVars

\* downloadFileFromUrl, useProxy: fetch(proxyUrl)
RelayGet ==
  /\ pc = "relayGet"
  /\ useProxy
  /\ \/ /\ raised' = raised \cup {"relay"}
        /\ calls' = Count("relay")
        /\ pc' = "directGet"
        /\ UNCHANGED response
     \/ \E r \in Responses :
          /\ UNCHANGED raised
          /\ calls' = [calls EXCEPT !.relay = @ + 1, !.relayStatus = r.status]
          /\ IF Ok(r)
             THEN response' = r /\ pc' = "checkResponse"
             ELSE response' = NoResponse /\ pc' = "directGet"
  /\ UNCHANGED <<hostVars, overwrite, values, recordIds, i, countVars, progress,
                 processing, urlValue, trimmedUrl, currentAttachments, useProxy, blob,
                 fileToken, attachmentsToSet, verifyAttachments, outcome, decided,
                 preCell, aborted>>
  /\ UNCHANGED sideVars

\* downloadFileFromUrl, no response yet: fetch(url)
DirectGet ==
  /\ pc = "directGet"
  /\ calls' = [calls EXCEPT !.direct = @ + 1,
                            !.late = IF "direct" \in raised THEN @ + 1 ELSE @]
  /\ \/ \E m \in TransportMessages :
          /\ raised' = raised \cup {"direct"}
          /\ DownloadError(CorsMessage(m))
     \/ \E r \in Responses :
          /\ response' = r
          /\ pc' = "checkResponse"
          /\ UNCHANGED <<raised, useProxy, countVars, progress, processing, i,
                         outcome, decided, aborted>>
  /\ UNCHANGED <<hostVars, overwrite, values, recordIds, urlValue, trimmedUrl, currentAttachments,
                 blob, fileToken, attachmentsToSet, verifyAttachments, preCell>>
  /\ UNCHANGED sideVars

\* downloadFileFromUrl: status test and content-length test
CheckResponse ==
  /\ pc = "checkResponse"
  /\ IF ~Ok(response)
     THEN DownloadError(HttpMessage(response))
     ELSE IF response.contentLength # Undefined /\ response.contentLength > maxSize
     THEN DownloadError(PlainMessage)
     ELSE /\ pc' = "readBody"
          /\ UNCHANGED <<useProxy, response, countVars, progress, processing, i,
                         outcome, decided, aborted>>
  /\ UNCHANGED <<hostVars, overwrite, values, recordIds, urlValue, trimmedUrl, currentAttachments,
                 blob, fileToken, attachmentsToSet, verifyAttachments, calls,
                 raised, preCell>>
  /\ UNCHANGED sideVars

\* downloadFileFromUrl: blob.size > 20 * 1024 * 1024, then blob.size === 0
BodyRejectedAtCeiling(size) == size >= maxSize \/ size = 0

BodyRejectedOnlyLarge(size) == size > maxSize

BodyRejected(size) == size > maxSize \/ size = 0

\* the step after downloadFileFromUrl returned a blob: getFieldById
\* (part_000, part_001) or uploadFile (App.tsx)
AfterBodyWrite(v) == "write"

AfterBody(v) == IF v = "App" THEN "upload" ELSE "getField"

\* downloadFileFromUrl: response.blob() and the size tests
ReadBody ==
  /\ pc = "readBody"
  /\ calls' = Count("body")
  /\ \/ \E m \in TransportMessages :
          /\ raised' = raised \cup {"body"}
          /\ DownloadError(m)
          /\ UNCHANGED blob
     \/ /\ UNCHANGED raised
        /\ IF BodyRejected(response.size)
           THEN /\ DownloadError(PlainMessage)
                /\ UNCHANGED blob
           ELSE /\ blob' = [size |-> response.size, type |-> response.type]
                /\ pc' = AfterBody(version)
                /\ UNCHANGED <<useProxy, response, countVars, progress,
                               processing, i, outcome, decided, aborted>>
  /\ UNCHANGED <<hostVars, overwrite, values, recordIds, urlValue, trimmedUrl, currentAttachments,
                 fileToken, attachmentsToSet, verifyAttachments, preCell>>
  /\ UNCHANGED sideVars

\* table.getFieldById(attachmentFieldId) (part_000, part_001)
GetField ==
  /\ pc = "getField"
  /\ calls' = Count("field")
  /\ \/ Raise("field")
     \/ /\ pc' = "upload"
        /\ UNCHANGED <<raised, countVars, progress, processing, i, outcome,
                       decided, aborted>>
  /\ UNCHANGED <<hostVars, overwrite, values, recordIds, localVars, preCell>>
  /\ UNCHANGED sideVars

\* batchUploadFile / uploadFile, attachmentItem, attachmentsToSet
Upload ==
  /\ pc = "upload"
  /\ calls' = Count("upload")
  /\ \/ /\ Raise("upload")
        /\ UNCHANGED <<fileToken, attachmentsToSet, nextToken>>
     \/ /\ version # "App"
        /\ Raise("noToken")
        /\ UNCHANGED <<fileToken, attachmentsToSet, nextToken>>
     \/ /\ fileToken' = nextToken
        /\ nextToken' = nextToken + 1
        /\ attachmentsToSet' =
             AttachmentsToSet(version, overwrite, currentAttachments,
               AttachmentItem(version, nextToken, getFileNameFromUrl(trimmedUrl), blob))
        /\ pc' = "write"
        /\ UNCHANGED <<raised, countVars, progress, processing, i, outcome,
                       decided, aborted>>
  /\ UNCHANGED <<version, tgtCell, overwrite, values, recordIds, urlValue, trimmedUrl,
                 currentAttachments, useProxy, response, blob, verifyAttachments,
                 preCell>>
  /\ UNCHANGED sideVars

\* table.setCellValue(attachmentFieldId, recordId, attachmentsToSet)
Write ==
  /\ pc = "write"
  /\ calls' = Count("write")
  /\ \/ /\ Raise("write")
        /\ UNCHANGED tgtCell
     \/ \E stored \in HostWrite(tgtCell[recordId], attachmentsToSet) :
          /\ tgtCell' = [tgtCell EXCEPT ![recordId] = stored]
          /\ UNCHANGED raised
          /\ IF version \in HasVerify
             THEN /\ pc' = "verifyRead"
                  /\ UNCHANGED <<countVars, progress, processing, i, outcome,
                                 decided, aborted>>
             ELSE Decide("success", FALSE)
  /\ UNCHANGED <<version, nextToken, overwrite, values, recordIds, localVars, preCell>>
  /\ UNCHANGED sideVars

\* the read-back after the write and its classification
VerifyRead ==
  /\ pc = "verifyRead"
  /\ calls' = Count("verify")
  /\ \/ /\ Raise("verify")
        /\ UNCHANGED verifyAttachments
     \/ \E v \in HostRead(tgtCell[recordId]) :
          /\ verifyAttachments' = v
          /\ UNCHANGED raised
          /\ Decide(VerifyOutcome(overwrite, currentAttachments, v, fileToken), TRUE)
  /\ UNCHANGED <<hostVars, overwrite, values, recordIds, urlValue, trimmedUrl, currentAttachments,
                 useProxy, response, blob, fileToken, attachmentsToSet, preCell>>
  /\ UNCHANGED sideVars

Next ==
  \/ Submit \/ GetRecords \/ EndOfRun \/ SkipEmptyId \/ StartRecord
  \/ ReadSource \/ ReadTarget \/ RelayGet \/ DirectGet \/ CheckResponse
  \/ ReadBody \/ GetField \/ Upload \/ Write \/ VerifyRead

Spec == Init /\ [][Next]_vars

\* every step of a run but the submit: an awaited call returns or raises
RunStep ==
  \/ GetRecords \/ EndOfRun \/ SkipEmptyId \/ StartRecord
  \/ ReadSource \/ ReadTarget \/ RelayGet \/ DirectGet \/ CheckResponse
  \/ ReadBody \/ GetField \/ Upload \/ Write \/ VerifyRead

\* a table whose first record has an empty target cell and whose other
\* records hold attachments
LiveInit ==
  /\ Init
  /\ tgtCell = [k \in 1..MaxRecords |->
                  IF k = 1 THEN <<>> ELSE <<BareAttachment, OldAttachment>>]

\* runs in which every awaited host call and HTTP request answers
LiveSpec == LiveInit /\ [][Next]_vars /\ WF_vars(RunStep)

\* ------------------------------------------------------------- properties
\* the record in hand has been decided (outcome is "none" while it is in hand)
Decided == outcome # "none"

\* the read-back after the write returned a value
Verified == Decided /\ calls.verify = 1 /\ "verify" \notin raised

\* the attachments the existing-attachment read returned (none for a
\* null or non-list value)
ExistingRead == IF IsList(currentAttachments) THEN currentAttachments.items ELSE <<>>

\* an attachment of the read-back carries the new upload token
TokenReadBack ==
  /\ IsList(verifyAttachments)
  /\ \E k \in 1..Len(verifyAttachments.items) :
        verifyAttachments.items[k].token = fileToken

\* the read-back is a list with at least the expected number of attachments:
\* 1 for overwrite, previous count + 1 for append
CountReadBack ==
  /\ IsList(verifyAttachments)
  /\ Len(verifyAttachments.items) >= (IF overwrite THEN 1 ELSE Len(preCell) + 1)

\* stages whose exception C1 says fail the record
HostStages == {"src", "tgt", "field", "upload", "noToken", "write", "verify"}

\* C1 as stated: whenever any call made for a record raised (the relay GET
\* and the direct GET included) the record is counted as failed.
C1_AnyRaiseFails ==
  (Decided /\ raised \cap (HostStages \cup {"relay", "direct", "body"}) # {})
     => outcome = "failed"

\* C1 amended: an exception of the source read, target read, field lookup,
\* upload, write or verify read, and a download that fails as a whole (no
\* payload was obtained), fail the record; the run is aborted by an exception
\* only before the loop; a run that is not aborted decides every record.
C1_FailureIsolation ==
  /\ (Decided /\ raised \cap HostStages # {}) => outcome = "failed"
  /\ (Decided /\ calls.relay > 0 /\ blob = NoBlob) => outcome = "failed"
  /\ aborted => (raised = {"getRecords"} /\ decided = 0)
  /\ (pc = "done" /\ ~aborted) => (i = Len(recordIds) /\ decided = Len(recordIds))

\* a raising write failed record 1 and the loop stands at record 2
C1_Witness ==
  /\ pc = "loopHead" /\ i = 1 /\ Len(recordIds) = 2
  /\ "write" \in raised /\ outcome = "failed" /\ failedCount = 1

\* C2: in part_000 and part_001 (the builds with a skippedCount) success +
\* failed + skipped equals the number of records decided so far, and equals
\* total at the end of the run.
C2_OutcomeConservation ==
  version \in {"part_000", "part_001"} =>
    /\ successCount + failedCount + skippedCount = i
    /\ i = decided
    /\ (pc = "done" /\ ~aborted) =>
          successCount + failedCount + skippedCount = progress.total

C2_Witness ==
  /\ version = "part_000" /\ pc = "done" /\ progress.total = 2
  /\ successCount = 1 /\ skippedCount = 1 /\ failedCount = 0

\* C3: with overwrite = false, a record whose target cell holds at least one
\* attachment gets no relay GET, no direct GET, no upload and no write, its
\* cell is unchanged, and once the existing-attachment read has returned it
\* ends as skipped.
C3_SkipWhenAttached ==
  (~overwrite /\ preCell # <<>>) =>
    /\ calls.relay = 0 /\ calls.direct = 0 /\ calls.body = 0
    /\ calls.upload = 0 /\ calls.write = 0
    /\ tgtCell[IF Decided THEN recordIds[i] ELSE recordId] = preCell
    /\ (Decided /\ calls.tgt = 1 /\ "tgt" \notin raised) => outcome = "skipped"

C3_Witness ==
  /\ ~overwrite /\ preCell # <<>> /\ outcome = "skipped"
  /\ calls.tgt = 1 /\ Len(currentAttachments.items) = 2

\* C4: after a write that did not raise, a read-back that contains the new
\* upload token, or else has at least the expected number of attachments,
\* makes the record success.
C4_VerifySuccessRows ==
  (Verified /\ (TokenReadBack \/ CountReadBack)) => outcome = "success"

\* success by count: the host re-keyed the token
C4_Witness ==
  /\ Verified /\ ~TokenReadBack /\ CountReadBack /\ outcome = "success"

\* C5: with overwrite = true, a read-back that is an empty list, null or not
\* a list makes the record failed.
C5_OverwriteEmptyReadBackFails ==
  (Verified /\ overwrite
     /\ (~IsList(verifyAttachments) \/ Len(verifyAttachments.items) = 0))
    => outcome = "failed"

C5_Witness ==
  /\ Verified /\ overwrite /\ verifyAttachments = NullValue /\ outcome = "failed"

\* C6 as stated: with overwrite = false, every read-back that neither holds
\* the new token nor reaches the expected count (null, non-list and empty
\* list included) makes the record success.
C6_AppendAlwaysLenient ==
  (Verified /\ ~overwrite /\ ~TokenReadBack /\ ~CountReadBack) => outcome = "success"

\* C6 amended: with overwrite = false, a null or non-list read-back makes the
\* record success; an empty-list read-back makes it failed.
C6_AppendLeniency ==
  /\ (Verified /\ ~overwrite /\ ~IsList(verifyAttachments)) => outcome = "success"
  /\ (Verified /\ ~overwrite /\ verifyAttachments = ListValue(<<>>))
        => outcome = "failed"

C6_Witness ==
  /\ Verified /\ ~overwrite /\ verifyAttachments = NonList /\ outcome = "success"

\* C7: a record is counted as success only after the target cell has been
\* read back following the write, in every build.
C7_SuccessOnlyAfterReadBack ==
  outcome = "success" => (calls.verify >= 1 /\ "verify" \notin raised)

\* the new attachment record: new upload token, derived file name, payload
\* size and payload type
IsNewRecord(att) ==
  /\ att.token = fileToken
  /\ att.name = getFileNameFromUrl(trimmedUrl)
  /\ att.size = blob.size
  /\ att.type = (IF blob.type = "" THEN OctetStream ELSE blob.type)

\* C8: with overwrite = true the sequence handed to the write has length 1
\* and its element is the new attachment record.
C8_OverwriteWritesNewRecord ==
  (overwrite /\ calls.write >= 1) =>
     (Len(attachmentsToSet) = 1 /\ IsNewRecord(attachmentsToSet[1]))

\* C9: with overwrite = false the sequence handed to the write is the
\* attachments read from the cell, in order and with their tokens, followed
\* by the new record; its length is the existing length + 1.
C9_AppendPolicy ==
  (~overwrite /\ calls.write >= 1) =>
     /\ Len(attachmentsToSet) = Len(ExistingRead) + 1
     /\ \A k \in 1..Len(ExistingRead) :
           attachmentsToSet[k].token = ExistingRead[k].token
     /\ LET last == attachmentsToSet[Len(attachmentsToSet)] IN
          /\ fileToken \in {last.token, last.file_token}
          /\ last.name = getFileNameFromUrl(trimmedUrl)

C9_Witness ==
  /\ ~overwrite /\ calls.write = 1 /\ Len(attachmentsToSet) = 1
  /\ currentAttachments = ListValue(<<>>)

\* C10: per record at most one relay GET and at most one direct GET; after a
\* direct GET raised no further request is made and the record is failed.
C10_BoundedFetch ==
  /\ calls.relay <= 1 /\ calls.direct <= 1
  /\ calls.late = 0
  /\ (Decided /\ "direct" \in raised) => outcome = "failed"

----------------------------------------------------------------------------
\* The relay function (part_002), serving one request

Methods == {"GET", "OPTIONS", "POST"}

\* req.query.url: missing, not a string (a repeated parameter), or a string
RelayUrls ==
  { JsUndefined, JsNumber, JsString(<<>>), JsString(UrlPng), JsString(UrlHttpDir),
    JsString(UrlFtp), JsString(UrlRelative) }

CorsHeaders == {"Access-Control-Allow-Origin", "Access-Control-Allow-Methods"}

\* res.status(code).json(...) with an object of the properties keys
SendJsonKeys(code, keys) ==
  [relay EXCEPT !.pc = "sent", !.status = code, !.body = "json",
                !.contentType = "application/json", !.keys = keys]

\* res.status(code).json({ error: ... })
SendJson(code) == SendJsonKeys(code, {"error"})

\* the catch of the handler: res.status(500).json({ error, details })
SendCaught == SendJsonKeys(500, {"error", "details"})

\* res.status(response.status) of a target answer that is not ok
RelayedStatusOk(r) == 200

RelayedStatus(r) == r.status

\* response.headers.get('content-type') || 'application/octet-stream'
RelayContentTypeOctet(r) == OctetStream

RelayContentType(r) == IF r.type = "" THEN OctetStream ELSE r.type

\* if (req.method === 'OPTIONS') ...; if (req.method !== 'GET') ...
HandleMethod ==
  /\ relay.pc = "method"
  /\ relay' = IF relay.method = "OPTIONS"
              THEN [relay EXCEPT !.pc = "sent", !.status = 200,
                      !.headers = CorsHeaders \cup {"Access-Control-Allow-Headers"}]
              ELSE IF relay.method # "GET" THEN SendJson(405)
              ELSE [relay EXCEPT !.pc = "param"]
  /\ UNCHANGED <<convertVars, run2, runs, fn>>

\* if (!url || typeof url !== 'string')
HandleParam ==
  /\ relay.pc = "param"
  /\ relay' = IF ~Truthy(relay.url) \/ relay.url.kind # "string"
              THEN SendJson(400)
              ELSE [relay EXCEPT !.pc = "url"]
  /\ UNCHANGED <<convertVars, run2, runs, fn>>

\* new URL(url) and the protocol test
HandleUrl ==
  /\ relay.pc = "url"
  /\ relay' = IF ~UrlParses(relay.url.str) THEN SendJson(400)
              ELSE IF UrlScheme(relay.url.str) \notin
                        {<<"h", "t", "t", "p">>, <<"h", "t", "t", "p", "s">>}
              THEN SendJson(400)
              ELSE [relay EXCEPT !.pc = "fetch"]
  /\ UNCHANGED <<convertVars, run2, runs, fn>>

\* await fetch(url, ...): raises (caught: 500) or answers
HandleFetch ==
  /\ relay.pc = "fetch"
  /\ \/ relay' = [SendCaught EXCEPT !.outbound = @ + 1]
     \/ \E r \in Responses :
          relay' = [relay EXCEPT !.pc = "status", !.outbound = @ + 1, !.target = r]
  /\ UNCHANGED <<convertVars, run2, runs, fn>>

\* if (!response.ok)
HandleStatus ==
  /\ relay.pc = "status"
  /\ relay' = IF ~Ok(relay.target)
              THEN SendJsonKeys(RelayedStatus(relay.target),
                                {"error", "status", "statusText"})
              ELSE [relay EXCEPT !.pc = "arrayBuffer"]
  /\ UNCHANGED <<convertVars, run2, runs, fn>>

\* await response.arrayBuffer(): raises (caught: 500) or yields the body
HandleBody ==
  /\ relay.pc = "arrayBuffer"
  /\ \/ relay' = SendCaught
     \/ relay' = [relay EXCEPT !.pc = "size", !.buffer = relay.target.size]
  /\ UNCHANGED <<convertVars, run2, runs, fn>>

\* if (buffer.length > maxSize) ...; headers; res.status(200).send(buffer)
HandleSend ==
  /\ relay.pc = "size"
  /\ relay' = IF relay.buffer > maxSize THEN SendJson(413)
              ELSE [relay EXCEPT
                      !.pc = "sent", !.status = 200,
                      !.contentType = RelayContentType(relay.target),
                      !.contentLength = relay.buffer,
                      !.headers = CorsHeaders \cup
                                  {"Content-Type", "Content-Length", "Cache-Control"},
                      !.body = relay.buffer]
  /\ UNCHANGED <<convertVars, run2, runs, fn>>

RelayInit ==
  /\ ConvertInit
  /\ version = "part_000"
  /\ tgtCell = [k \in 1..MaxRecords |-> <<>>]
  /\ run2 = NoRun2
  /\ runs = <<>>
  /\ fn = NoCall
  /\ relay \in { RelayRequest(m, u) : m \in Methods, u \in RelayUrls }

RelayNext ==
  \/ HandleMethod \/ HandleParam \/ HandleUrl \/ HandleFetch \/ HandleStatus
  \/ HandleBody \/ HandleSend

RelaySpec == RelayInit /\ [][RelayNext]_vars

----------------------------------------------------------------------------
\* Repeated runs: the form is submitted again after a run over a view of at
\* most one record ended.  The new invocation starts with fresh locals; the
\* host keeps its cells and tokens.
Resubmit ==
  /\ pc = "done"
  /\ Len(runs) + 1 < MaxRuns
  /\ Len(recordIds) <= 1
  /\ \E v \in FormValues, ow \in BOOLEAN :
       /\ values' = v
       /\ IF FormComplete(v)
          THEN /\ overwrite' = ow
               /\ runs' = Append(runs, [overwrite |-> overwrite, outcome |-> outcome])
               /\ processing' = TRUE
               /\ progress' = ZeroProgress
               /\ pc' = "getRecords"
               /\ i' = 0
               /\ successCount' = 0 /\ failedCount' = 0 /\ skippedCount' = 0
               /\ urlValue' = NoValue
               /\ trimmedUrl' = <<>>
               /\ currentAttachments' = NullValue
               /\ useProxy' = TRUE
               /\ response' = NoResponse
               /\ blob' = NoBlob
               /\ fileToken' = Undefined
               /\ attachmentsToSet' = <<>>
               /\ verifyAttachments' = NullValue
               /\ outcome' = "none" /\ decided' = 0 /\ calls' = NoCalls
               /\ raised' = {}
               /\ preCell' = <<>> /\ aborted' = FALSE
          ELSE /\ pc' = "rejected"
               /\ UNCHANGED <<overwrite, runs, processing, progress, i,
                              countVars, localVars, histVars>>
  /\ UNCHANGED <<hostVars, recordIds, relay, run2, fn>>

RerunNext == Next \/ Resubmit

RerunSpec == Init /\ [][RerunNext]_vars

----------------------------------------------------------------------------
\* The value normaliser of handleConvert and isValidUrl of fileUtils.ts as
\* functions of their argument alone: a behaviour makes one call, a step
\* that records the argument and the result in fn.

\* scalar values a cell, a link or a text can hold
CellScalars ==
  {JsUndefined, JsNull, JsNumber, JsString(<<>>), JsString(Blank),
   JsString(UrlPng), JsString(UrlFtp)}

\* elements of an array cell value: segment objects, strings, other scalars
CellElements ==
  {Segment(l, t) : l \in CellScalars, t \in CellScalars}
    \cup {Scalar(v) : v \in CellScalars}

CellArrays == UNION {[1..n -> CellElements] : n \in 0..MaxItems}

\* every shape getCellValue can answer with
CellShapes ==
  {CellScalar(v) : v \in CellScalars \cup {JsString(UrlPadded)}}
    \cup {CellObject(l, t) : l \in CellScalars, t \in CellScalars}
    \cup {CellArray(a) : a \in CellArrays}

\* the emptiness test and the trim after the extraction: no URL (null, the
\* record is skipped) or trimmedUrl
NormalizedUrl(url) ==
  IF UrlIsEmpty(url) THEN JsNull ELSE JsString(Trim(url.str))

Normalize ==
  /\ pc = "idle"
  /\ fn = NoCall
  /\ \E cellValue \in CellShapes :
       fn' = [NoCall EXCEPT !.op = "normalize", !.cell = cellValue,
                            !.out = ExtractUrl(cellValue),
                            !.url = NormalizedUrl(ExtractUrl(cellValue))]
  /\ UNCHANGED <<convertVars, relay, run2, runs>>

\* isValidUrl on any JavaScript value: !url || typeof url !== 'string'
isValidUrlOf(v) ==
  IF ~Truthy(v) \/ v.kind # "string" THEN FALSE ELSE isValidUrl(v.str)

UrlPads == {<<>>, <<Space>>}
UrlSchemes ==
  {<<>>, <<":">>, <<"h", "t", "t", "p", ":">>, <<"h", "t", "t", "p", "s", ":">>,
   <<"H", "T", "T", "P", ":">>, <<"f", "t", "p", ":">>}
UrlSlashes == {<<>>, <<"/">>, <<"/", "/">>}
UrlHosts == {<<>>, <<"a">>, <<"a", Space, "x">>}
UrlPaths == {<<>>, <<"/", "i">>}

UrlParts ==
  [pad : UrlPads, scheme : UrlSchemes, slashes : UrlSlashes, host : UrlHosts,
   path : UrlPaths, tail : UrlPads]

UrlText(p) == p.pad \o p.scheme \o p.slashes \o p.host \o p.path \o p.tail

Validate ==
  /\ pc = "idle"
  /\ fn = NoCall
  /\ \/ \E p \in UrlParts :
          fn' = [NoCall EXCEPT !.op = "validate", !.parts = p,
                               !.arg = JsString(UrlText(p)),
                               !.valid = isValidUrlOf(JsString(UrlText(p)))]
     \/ \E v \in {JsUndefined, JsNull, JsNumber} :
          fn' = [NoCall EXCEPT !.op = "validate", !.arg = v,
                               !.valid = isValidUrlOf(v)]
  /\ UNCHANGED <<convertVars, relay, run2, runs>>

PureInit ==
  /\ Init
  /\ version = "part_000"
  /\ tgtCell = [k \in 1..MaxRecords |-> <<>>]

PureNext == Normalize \/ Validate

PureSpec == PureInit /\ [][PureNext]_vars

----------------------------------------------------------------------------
\* The table is shared: while handleConvert has the record of a one-record
\* view in hand, between its read of the target cell and its write, another
\* actor on the table (a user, an automation) adds an attachment to the cell.
OtherAdds ==
  /\ pc \in {"relayGet", "directGet", "checkResponse", "readBody", "getField",
              "upload", "write"}
  /\ Len(recordIds) = 1
  /\ tgtCell[recordId] = preCell
  /\ tgtCell' = [tgtCell EXCEPT ![recordId] = Append(@, OldAttachment)]
  /\ UNCHANGED <<version, nextToken, pc, overwrite, values, recordIds, i, countVars,
                 progress, processing, localVars, histVars>>
  /\ UNCHANGED sideVars

SharedNext == Next \/ OtherAdds

SharedSpec == Init /\ [][SharedNext]_vars

----------------------------------------------------------------------------
\* A second invocation of handleConvert, started by a submit that arrives
\* while the first one has the record of a one-record view in hand.  Its records hold a valid URL, and its
\* fetch, upload, write and read-back answer without raising.

\* handleConvert of the second invocation up to setProcessing / setProgress
Submit2 ==
  /\ run2.pc = "off"
  /\ pc \in {"readSource", "readTarget", "relayGet", "directGet"}
  /\ Len(recordIds) = 1
  /\ processing' = TRUE
  /\ progress' = [current |-> 0, total |-> 0, success |-> 0, failed |-> 0]
  /\ run2' = [run2 EXCEPT !.pc = "getRecords"]
  /\ UNCHANGED <<hostVars, pc, overwrite, values, recordIds, i, countVars, localVars,
                 histVars, relay, runs, fn>>

\* getVisibleRecordIdList answers with the list the view held before
GetRecords2 ==
  /\ run2.pc = "getRecords"
  /\ progress' = [current |-> 0, total |-> Len(recordIds), success |-> 0, failed |-> 0]
  /\ run2' = [run2 EXCEPT !.pc = "loopHead"]
  /\ UNCHANGED <<hostVars, pc, overwrite, values, recordIds, i, countVars, processing,
                 localVars, histVars, relay, runs, fn>>

\* loop head of the second invocation: empty id skipped, else record taken
StartRecord2 ==
  /\ run2.pc = "loopHead"
  /\ run2.i < Len(recordIds)
  /\ IF recordIds[run2.i + 1] = 0
     THEN /\ run2' = [run2 EXCEPT !.i = NextIndex(@, "skipped")]
          /\ progress' = IF version = "part_000"
                         THEN [progress EXCEPT !.current = run2.i + 1] ELSE progress
     ELSE /\ run2' = [run2 EXCEPT !.pc = "readSource"]
          /\ progress' = [progress EXCEPT !.current = CurrentOnStart(run2.i)]
  /\ UNCHANGED <<hostVars, pc, overwrite, values, recordIds, i, countVars, processing,
                 localVars, histVars, relay, runs, fn>>

\* source read of the second invocation: a valid URL
ReadSource2 ==
  /\ run2.pc = "readSource"
  /\ run2' = [run2 EXCEPT !.pc = "readTarget"]
  /\ UNCHANGED <<convertVars, relay, runs, fn>>

\* target read and skip test of the second invocation
ReadTarget2 ==
  /\ run2.pc = "readTarget"
  /\ \E v \in HostRead(tgtCell[recordIds[run2.i + 1]]) :
       run2' = IF SkipExisting(overwrite, v)
               THEN [run2 EXCEPT !.pc = "loopHead", !.i = NextIndex(@, "skipped"),
                                 !.currentAttachments = v]
               ELSE [run2 EXCEPT !.pc = "fetch", !.currentAttachments = v]
  /\ UNCHANGED <<convertVars, relay, runs, fn>>

\* downloadFileFromUrl of the second invocation answers with a payload
Fetch2 ==
  /\ run2.pc = "fetch"
  /\ run2' = [run2 EXCEPT !.pc = "upload"]
  /\ UNCHANGED <<convertVars, relay, runs, fn>>

\* upload and attachmentsToSet of the second invocation
Upload2 ==
  /\ run2.pc = "upload"
  /\ nextToken' = nextToken + 1
  /\ run2' = [run2 EXCEPT
                !.pc = "write",
                !.attachmentsToSet =
                   AttachmentsToSet(version, overwrite, run2.currentAttachments,
                     AttachmentItem(version, nextToken, getFileNameFromUrl(UrlPng),
                                    [size |-> 10240, type |-> "image/png"]))]
  /\ UNCHANGED <<version, tgtCell, pc, overwrite, values, recordIds, i, countVars, progress,
                 processing, localVars, histVars, relay, runs, fn>>

\* setCellValue of the second invocation, stored as handed over
Write2 ==
  /\ run2.pc = "write"
  /\ tgtCell' = [tgtCell EXCEPT ![recordIds[run2.i + 1]] = run2.attachmentsToSet]
  /\ run2' = [run2 EXCEPT !.pc = "verify"]
  /\ UNCHANGED <<version, nextToken, pc, overwrite, values, recordIds, i, countVars,
                 progress, processing, localVars, histVars, relay, runs, fn>>

\* read-back of the second invocation finds the new token: success
Verify2 ==
  /\ run2.pc = "verify"
  /\ run2' = [run2 EXCEPT !.pc = "loopHead", !.i = NextIndex(@, "success"),
                          !.successCount = @ + 1]
  /\ progress' = IF version = "part_000"
                 THEN [progress EXCEPT !.success = run2.successCount + 1]
                 ELSE progress
  /\ UNCHANGED <<hostVars, pc, overwrite, values, recordIds, i, countVars, processing,
                 localVars, histVars, relay, runs, fn>>

\* end of the loop of the second invocation: summary, finally
EndOfRun2 ==
  /\ run2.pc = "loopHead"
  /\ run2.i >= Len(recordIds)
  /\ progress' = [progress EXCEPT !.success = run2.successCount, !.failed = 0]
  /\ processing' = FALSE
  /\ run2' = [run2 EXCEPT !.pc = "done"]
  /\ UNCHANGED <<hostVars, pc, overwrite, values, recordIds, i, countVars, localVars,
                 histVars, relay, runs, fn>>

TwoRunInit ==
  /\ ConvertInit
  /\ version = "part_001"
  /\ tgtCell = [k \in 1..MaxRecords |-> <<>>]
  /\ relay = NoRelay
  /\ run2 = NoRun2
  /\ runs = <<>>
  /\ fn = NoCall

TwoRunNext ==
  \/ Next
  \/ Submit2 \/ GetRecords2 \/ StartRecord2 \/ ReadSource2 \/ ReadTarget2
  \/ Fetch2 \/ Upload2 \/ Write2 \/ Verify2 \/ EndOfRun2

TwoRunSpec == TwoRunInit /\ [][TwoRunNext]_vars

----------------------------------------------------------------------------

\* the relay was asked and did not succeed: its GET raised or it answered
\* with a non-success status
RelayFailed ==
  "relay" \in raised \/ (calls.relayStatus # 0 /\ ~(calls.relayStatus \in 200..299))

\* C11: the relay is asked first; a direct GET is issued if and only if the
\* relay was not used, raised or answered a non-success status; a successful
\* relay answer is the result and no direct GET follows; when the relay
\* answers 500 and the direct GET raises, the record is failed and the loop
\* goes on.
C11_RelayThenDirect ==
  /\ calls.direct >= 1 => (calls.relay = 0 \/ RelayFailed)
  /\ (RelayFailed /\ pc # "directGet") => calls.direct >= 1
  /\ (calls.relay = 1 /\ ~RelayFailed) =>
        (calls.direct = 0 /\ (response # NoResponse => response.status = calls.relayStatus))
  /\ (Decided /\ calls.relayStatus = 500 /\ "direct" \in raised) =>
        (outcome = "failed" /\ pc \in {"loopHead", "done"} /\ ~aborted)

\* a body was read for the record in hand without the read raising
BodyRead ==
  calls.body >= 1 /\ "body" \notin raised /\ pc # "readBody" /\ response # NoResponse

\* the calls that come after the source read
NoTargetFetchUploadWrite ==
  /\ calls.tgt = 0 /\ calls.relay = 0 /\ calls.direct = 0 /\ calls.body = 0
  /\ calls.field = 0 /\ calls.upload = 0 /\ calls.write = 0 /\ calls.verify = 0

\* C12: every payload downloadFileFromUrl returns comes from a response with
\* a success status and has 0 < size <= 20 MiB; a body of exactly 20 MiB is
\* accepted, a body one byte larger is rejected (it got as far as the body
\* read, so no content-length announced it), and the rejection fails the
\* record in hand only: the loop goes on, the run is not aborted.
C12_PayloadInvariant ==
  /\ blob # NoBlob =>
        /\ response # NoResponse /\ Ok(response)
        /\ blob.size = response.size
        /\ 0 < blob.size /\ blob.size <= maxSize
  /\ (BodyRead /\ response.size = maxSize) => (blob # NoBlob /\ blob.size = maxSize)
  /\ (BodyRead /\ response.size > maxSize) =>
        /\ response.contentLength = Undefined
        /\ blob = NoBlob
        /\ outcome = "failed" /\ ~aborted /\ pc \in {"loopHead", "done"}
        /\ calls.upload = 0 /\ calls.write = 0

C12_Witness ==
  /\ BodyRead /\ response.size = maxSize /\ response.contentLength = Undefined
  /\ blob # NoBlob /\ outcome = "success"

\* C14: a fetch answered with a success status and a zero-byte body makes
\* the record failed, never success, and no upload and no write is made.
C14_EmptyBodyFails ==
  (BodyRead /\ Ok(response) /\ response.size = 0) =>
     /\ outcome = "failed"
     /\ blob = NoBlob
     /\ calls.field = 0 /\ calls.upload = 0 /\ calls.write = 0 /\ calls.verify = 0

C14_Witness ==
  BodyRead /\ Ok(response) /\ response.size = 0 /\ outcome = "failed" /\ failedCount >= 1

\* trimmed URLs that are not absolute http/https URLs
InvalidUrls == {UrlFtp, UrlRelative}

C16_InvalidUrlSkipped ==
  (calls.src = 1 /\ trimmedUrl \in InvalidUrls /\ Decided) => outcome = "skipped"

\* source cell values that hold no URL: null, the empty sequence, a segment
\* with neither link nor text, a number, a string of blanks
EmptySources ==
  { CellScalar(JsNull), CellArray(<<>>), CellObject(JsUndefined, JsUndefined),
    CellScalar(JsNumber), CellScalar(JsString(Blank)) }

\* C17: a record with an empty record id, or whose source cell holds no URL,
\* ends as skipped, and no target-cell read, fetch, upload or write is made
\* for it.
C17_EmptySkipped ==
  /\ (calls.src = 1 /\ urlValue \in EmptySources) =>
        /\ outcome = "skipped" /\ NoTargetFetchUploadWrite
        /\ (CountsSkipped(version) => skippedCount >= 1)
  /\ (i >= 1 /\ recordIds[i] = 0 /\ pc \in {"loopHead", "done"}) =>
        /\ outcome = "skipped" /\ calls = NoCalls
        /\ (CountsSkipped(version) => skippedCount >= 1)

C17_Witness ==
  /\ calls.src = 1 /\ urlValue = CellScalar(JsString(Blank)) /\ outcome = "skipped"
  /\ i = 2 /\ recordIds[1] = 0

\* a record with an id is in hand: between StartRecord and its decision
InHand ==
  pc \in {"readSource", "readTarget", "relayGet", "directGet", "checkResponse",
          "readBody", "getField", "upload", "write", "verifyRead"}

\* some call counter of the record in hand goes up in this step
CallIssued ==
  \E f \in {"src", "tgt", "relay", "direct", "body", "field", "upload", "write", "verify"} :
     calls'[f] > calls[f]

\* C18: the records are visited in the index order of the list, each index
\* once: the index in hand is the number of records decided, it moves by one
\* with every decision (a failed record included) and never back, a run that
\* ends normally has decided every index; a call is issued only for the record
\* in hand while its outcome is open, and the next record is taken only when
\* the one before is decided.
C18_SequentialOrder ==
  /\ [](/\ i = decided
        /\ i <= Len(recordIds)
        /\ (InHand => (outcome = "none" /\ i < Len(recordIds) /\ recordId # 0))
        /\ (pc = "loopHead" => (decided = 0 \/ Decided))
        /\ ((pc = "done" /\ ~aborted) => decided = Len(recordIds)))
  /\ [][/\ (pc # "getRecords" => i' \in {i, i + 1})
        /\ (decided' # decided => (decided' = decided + 1 /\ i' = i + 1 /\ outcome' # "none"))
        /\ (CallIssued => (InHand /\ outcome = "none" /\ i' \in {i, i + 1}
                            /\ recordIds' = recordIds))]_vars

C18_Witness ==
  /\ pc = "done" /\ ~aborted /\ Len(recordIds) = 2 /\ decided = 2
  /\ failedCount = 1 /\ outcome = "success"

DeclaredLarge(r) ==
  r # NoResponse /\ r.contentLength # Undefined /\ r.contentLength > maxSize

\* C13: a resource whose declared content-length exceeds 20 MiB is rejected
\* before its body is read, on every fetch path: the client on the relay's
\* or the direct response, and the relay function on the target's response.
C13_NoOversizeBodyRead ==
  /\ (calls.body >= 1 /\ response # NoResponse) => ~DeclaredLarge(response)
  /\ relay.buffer # Undefined => ~DeclaredLarge(relay.target)

\* the second invocation has a record in hand
InHand2 == run2.pc \in {"readSource", "readTarget", "fetch", "upload", "write", "verify"}

\* C19: at most one record is in flight across all invocations, a second
\* submit during a run included; two runs never hold the same record's
\* target cell between their read of it and their write to it.
C19_OneRecordInFlight ==
  /\ ~(InHand /\ InHand2)
  /\ ~(/\ pc \in {"relayGet", "directGet", "checkResponse", "readBody", "getField",
                  "upload", "write"}
       /\ run2.pc \in {"fetch", "upload", "write"}
       /\ run2.i = i)

\* the host answered the list request with the empty list
EmptyListAnswered ==
  recordIds = <<>> /\ pc \notin {"idle", "rejected", "getRecords"} /\ ~aborted

\* C21: when the visible-record list is empty the run ends at once with
\* total = 0: no cell is read or written, no fetch and no upload is made,
\* every counter stays 0 and processing is false afterwards.
C21_EmptyListEndsRun ==
  /\ [](EmptyListAnswered =>
          /\ pc = "done" /\ ~processing
          /\ progress = [current |-> 0, total |-> 0, success |-> 0, failed |-> 0]
          /\ successCount = 0 /\ failedCount = 0 /\ skippedCount = 0
          /\ decided = 0 /\ calls = NoCalls /\ raised = {} /\ nextToken = 1)
  /\ [][recordIds' = <<>> => tgtCell' = tgtCell]_vars

C21_Witness ==
  EmptyListAnswered /\ pc = "done" /\ ~processing /\ progress.total = 0

\* C24: a run changes no cell but the target cell of the record in hand, and
\* that one by a single write call per record; it creates and deletes no
\* record (the set of records stays what it was).
C24_RunFrame ==
  /\ [](calls.write <= 1 /\ DOMAIN tgtCell = 1..MaxRecords)
  /\ [][tgtCell' # tgtCell =>
          /\ pc = "write" /\ outcome = "none"
          /\ calls.write = 0 /\ calls'.write = 1
          /\ \A k \in DOMAIN tgtCell :
                k # recordIds[i + 1] => tgtCell'[k] = tgtCell[k]]_vars

C24_Witness ==
  /\ recordIds = <<1, 2>> /\ calls.write = 1 /\ "write" \notin raised
  /\ (pc = "verifyRead" /\ i = 1) \/ (pc = "loopHead" /\ i = 2)
  /\ tgtCell[2] # preCell /\ tgtCell[2] # <<>>

\* C25: the steps of one record come in the order source read, validation,
\* target read, fetch, upload, write, verify read: the target is read only
\* after a valid URL was found, a GET is issued only after the existing-
\* attachment test passed, upload only after a payload was returned, write
\* only after upload returned a token, the verify read only after the write
\* returned; once the record is failed or skipped no further step is made.
C25_StepOrder ==
  /\ [](/\ calls.src <= 1 /\ calls.tgt <= 1 /\ calls.upload <= 1 /\ calls.verify <= 1
        /\ calls.tgt >= 1 =>
              (calls.src = 1 /\ "src" \notin raised /\ trimmedUrl \in {UrlPng})
        /\ calls.relay + calls.direct >= 1 =>
              /\ calls.tgt = 1 /\ "tgt" \notin raised
              /\ ~(~overwrite /\ IsList(currentAttachments)
                     /\ Len(currentAttachments.items) > 0)
        /\ calls.body >= 1 => (calls.relay + calls.direct >= 1 /\ response # NoResponse)
        /\ calls.field + calls.upload >= 1 => (calls.body >= 1 /\ blob # NoBlob)
        /\ calls.upload >= 1 => (version # "App" => (calls.field = 1 /\ "field" \notin raised))
        /\ calls.write >= 1 =>
              /\ calls.upload = 1 /\ {"upload", "noToken"} \cap raised = {}
              /\ fileToken # Undefined
        /\ calls.verify >= 1 => (calls.write = 1 /\ "write" \notin raised))
  /\ [][outcome # "none" => ~CallIssued]_vars

C25_Witness ==
  /\ outcome = "success" /\ calls.src = 1 /\ calls.tgt = 1 /\ calls.relay = 1
  /\ calls.body = 1 /\ calls.upload = 1 /\ calls.write = 1 /\ calls.verify = 1

\* the scenario of C27: one record with a valid https URL, an empty target
\* cell, overwrite off, a payload fetched, token fileToken uploaded, the
\* write returned and the read-back holds the token
ScenarioA ==
  /\ recordIds = <<1>> /\ ~overwrite /\ preCell = <<>>
  /\ calls.src = 1 /\ trimmedUrl = UrlPng
  /\ blob # NoBlob /\ fileToken # Undefined
  /\ calls.write = 1 /\ "write" \notin raised
  /\ calls.verify = 1 /\ "verify" \notin raised /\ TokenReadBack

\* C27: in that scenario the record is success, the target cell holds
\* exactly the one attachment with the uploaded token, and the run ends with
\* total 1, success 1, failed 0, skipped 0.
C27_EndToEndSuccess ==
  /\ ScenarioA =>
        /\ outcome = "success"
        /\ Len(tgtCell[1]) = 1 /\ tgtCell[1][1].token = fileToken
        /\ successCount = 1 /\ failedCount = 0 /\ skippedCount = 0
  /\ (ScenarioA /\ pc = "done") =>
        /\ ~aborted /\ ~processing
        /\ progress.total = 1 /\ progress.success = 1 /\ progress.failed = 0

C27_Witness ==
  ScenarioA /\ pc = "done" /\ outcome = "success" /\ progress.success = 1

\* C30: every response the relay produces carries the permissive
\* cross-origin header Access-Control-Allow-Origin: the 200 success, the 400
\* parameter errors, the relayed target status, the 500 transport failure
\* and every other response path.
C30_CorsOnEveryResponse ==
  relay.pc = "sent" => "Access-Control-Allow-Origin" \in relay.headers

\* C26: when every awaited call returns or raises, a run that started
\* processing ends; a run that ends without an exception before or in the
\* loop has decided every record of the list; and on every exit (empty
\* list, exception, normal completion) processing is false afterwards.
C26_Termination ==
  /\ (pc = "getRecords") ~> (pc = "done" /\ ~processing)
  /\ []((pc = "done" /\ ~aborted) => decided = Len(recordIds))
  /\ [](pc = "done" => ~processing)
  /\ [](processing => pc \notin {"idle", "rejected", "done"})

C26_Witness ==
  /\ pc = "done" /\ ~processing /\ ~aborted
  /\ Len(recordIds) = MaxRecords /\ decided = MaxRecords /\ outcome = "skipped"

\* C22: run state is reset at the start of every run: when a run starts
\* processing, current, total, success, failed and the run's counters are 0
\* whatever an earlier run left, and what a run counts and reports covers
\* its own records only (never more than the records it has decided).
C22_RunStateReset ==
  /\ [](pc = "getRecords" =>
          /\ processing /\ progress = [current |-> 0, total |-> 0, success |-> 0, failed |-> 0]
          /\ successCount = 0 /\ failedCount = 0 /\ skippedCount = 0 /\ decided = 0)
  /\ [](pc \in {"loopHead", "done"} =>
          /\ successCount + failedCount + skippedCount <= decided
          /\ decided <= Len(recordIds)
          /\ progress.success <= successCount /\ progress.failed <= failedCount
          /\ progress.current <= decided)
  /\ []((pc = "done" /\ ~aborted) =>
          /\ progress.total = Len(recordIds)
          /\ progress.success = successCount /\ progress.failed = failedCount)

C22_Witness ==
  /\ Len(runs) = 1 /\ pc = "done" /\ ~aborted /\ recordIds = <<1>>
  /\ nextToken = 2 /\ Len(tgtCell[1]) = 1
  /\ outcome = "skipped" /\ progress.success = 0 /\ progress.total = 1

\* the write of the record decided last was stored by the host (as handed
\* over, or with the new attachment re-keyed)
WriteStored ==
  /\ calls.write = 1 /\ "write" \notin raised
  /\ tgtCell[recordIds[i]] \in {attachmentsToSet, Rekey(attachmentsToSet)}

\* C23: with overwrite = true, a record whose fetch, upload and write
\* succeeded holds exactly 1 attachment after the run, in a first run and in
\* a run over the same records after it, whatever the cell held before.
C23_OverwriteIdempotent ==
  (/\ pc \in {"loopHead", "done"} /\ outcome = "success" /\ overwrite
   /\ i >= 1 /\ WriteStored) => Len(tgtCell[recordIds[i]]) = 1

C23_Witness ==
  /\ Len(runs) = 1 /\ runs[1].overwrite /\ overwrite /\ pc = "done"
  /\ outcome = "success"
  /\ recordIds = <<1>> /\ WriteStored
  /\ Len(preCell) = 1 /\ preCell # tgtCell[1] /\ Len(tgtCell[1]) = 1 /\ nextToken = 3

\* the segment or object value carries a link that is a non-empty string
HasLink(v) == v.kind = "object" /\ v.link.kind = "string" /\ v.link.str # <<>>

\* it carries no link (absent, null or empty) and a text that is a non-empty
\* string
HasTextOnly(v) ==
  /\ v.kind = "object" /\ v.link \in {JsUndefined, JsNull, JsString(<<>>)}
  /\ v.text.kind = "string" /\ v.text.str # <<>>

\* the array cell value that holds the first element of cell value v alone
FirstAlone(v) == CellArray(<<v.items[1]>>)

\* C28: for every shape of the source cell value (null, undefined, number,
\* string, array of segments and strings, single segment object) the
\* normalisation yields no URL or a non-empty trimmed string; a plain string
\* is taken as it is; of an array only the first element counts; a segment
\* with a non-empty link yields the link whatever its text, and its text only
\* when it has no link.
C28_NormalizeTotalPrefersLink ==
  fn.op = "normalize" =>
    LET v == fn.cell
        e == IF v.kind = "array" /\ Len(v.items) > 0 THEN v.items[1] ELSE v
    IN /\ \/ fn.url = JsNull
          \/ /\ fn.url.kind = "string" /\ fn.url.str # <<>>
             /\ Trim(fn.url.str) = fn.url.str
             /\ fn.out.kind = "string" /\ fn.url.str = Trim(fn.out.str)
       /\ fn.url = JsNull <=>
            (fn.out.kind # "string" \/ Trim(fn.out.str) = <<>>)
       /\ v.kind = "string" /\ v.str # <<>> => fn.out = JsString(v.str)
       /\ v.kind \in {"null", "undefined", "number"} => fn.url = JsNull
       /\ v.kind = "array" /\ Len(v.items) = 0 => fn.url = JsNull
       /\ v.kind = "array" /\ Len(v.items) > 0 =>
            fn.out = ExtractUrl(FirstAlone(v))
       /\ HasLink(e) => fn.out = e.link
       /\ HasTextOnly(e) => fn.out = e.text
       /\ e.kind = "string" => fn.url = NormalizedUrl(JsString(e.str))

C28_Witness ==
  /\ fn.op = "normalize"
  /\ fn.cell = CellArray(<<Segment(JsString(UrlPng), JsString(UrlFtp)),
                           Scalar(JsString(UrlFtp))>>)
  /\ fn.out = JsString(UrlPng) /\ fn.url = JsString(UrlPng)

\* the text put together from parts p is an absolute URL with scheme http or
\* https: the scheme is there, and a host without a space follows the slashes
AbsoluteHttp(p) ==
  /\ p.scheme \in {<<"h", "t", "t", "p", ":">>, <<"h", "t", "t", "p", "s", ":">>,
                   <<"H", "T", "T", "P", ":">>}
  /\ p.host \o p.path # <<>>
  /\ \A k \in 1..Len(p.host) : p.host[k] # Space

\* C29: isValidUrl answers true exactly for a string that parses as an
\* absolute URL with scheme http or https, and false for every other
\* argument: the empty string, a relative path, another scheme, malformed
\* text, a value that is not a string; every call returns.
C29_IsValidUrlExact ==
  fn.op = "validate" =>
    /\ fn.valid \in BOOLEAN
    /\ fn.valid <=> (fn.arg.kind = "string" /\ AbsoluteHttp(fn.parts))

C29_Witness ==
  /\ fn.op = "validate" /\ fn.valid
  /\ fn.arg = JsString(<<"h", "t", "t", "p", "s", ":", "/", "/", "a", "/", "i">>)

\* the target answered the relay's GET with a success status
TargetOk == relay.target # NoResponse /\ Ok(relay.target)

\* the relay answered 200 with the bytes of the target resource and the
\* target's content type (the octet type when the target names none)
MirrorsTarget ==
  /\ relay.status = 200
  /\ relay.body = relay.target.size
  /\ relay.contentLength = relay.target.size
  /\ relay.contentType =
       (IF relay.target.type = "" THEN OctetStream ELSE relay.target.type)

\* C31 as stated: whenever the target answers the relay's GET with a success
\* status, the relay answers 200 with the raw bytes of the target resource
\* and the target's content type.
C31_OkTargetAnswers200 ==
  (relay.pc = "sent" /\ TargetOk) => MirrorsTarget

\* C31: when the target answers with a success status, its body is read
\* without an error and is at most 20 MiB long, the relay answers 200 with
\* the bytes of the target resource and the target's content type (the octet
\* type when the target gives none); a longer body is answered 413 and a
\* failed body read 500, both with a JSON body.
C31_RelaySuccess ==
  (relay.pc = "sent" /\ TargetOk) =>
    /\ (relay.buffer # Undefined /\ relay.buffer <= maxSize) => MirrorsTarget
    /\ (relay.buffer # Undefined /\ relay.buffer > maxSize) =>
          (relay.status = 413 /\ relay.body = "json")
    /\ relay.buffer = Undefined =>
          (relay.status = 500 /\ relay.body = "json")

C31_Witness ==
  /\ relay.pc = "sent" /\ relay.status = 200 /\ relay.method = "GET"
  /\ relay.target = Response(200, Undefined, 10240, "image/png")
  /\ relay.body = 10240 /\ relay.contentType = "image/png"

\* the url parameter is missing, not a string, does not parse or has a
\* scheme other than http and https
BadUrlParameter ==
  \/ relay.url.kind # "string"
  \/ relay.url.str = <<>>
  \/ relay.url.str \in {UrlFtp, UrlRelative}

\* C32: a GET whose target answers with a status S that is not a success is
\* answered with S; an outbound request that raises is answered 500 with a
\* JSON body of error and details; a url parameter that is missing, not a
\* string, unparseable or not http/https is answered 400 and no outbound
\* request is made.
C32_RelayFailure ==
  (relay.pc = "sent" /\ relay.method = "GET") =>
    /\ (relay.target # NoResponse /\ ~Ok(relay.target)) =>
          relay.status = relay.target.status
    /\ (relay.outbound = 1 /\ relay.target = NoResponse) =>
          /\ relay.status = 500 /\ relay.body = "json"
          /\ relay.keys = {"error", "details"}
    /\ BadUrlParameter <=> (relay.status = 400 /\ relay.outbound = 0)
    /\ BadUrlParameter => relay.status = 400

C32_Witness ==
  /\ relay.pc = "sent" /\ relay.method = "GET" /\ relay.url = JsString(UrlPng)
  /\ relay.target = Response(404, Undefined, 9, "") /\ relay.status = 404

\* C33: once the outcome of a record is decided, the counters shown to the
\* user are exact: progress.success is the number of records classified
\* success so far and progress.failed the number classified failed so far,
\* on every failure path.
C33_CountersExact ==
  (Decided /\ pc \in {"loopHead", "done"} /\ ~aborted) =>
     (progress.success = successCount /\ progress.failed = failedCount)

\* a run after a run in which the record of the view ended as success
AfterSuccess ==
  Len(runs) >= 1 /\ runs[Len(runs)].outcome = "success" /\ Len(recordIds) = 1

\* what the target cell of the record held when the run started: the run
\* changes it with its write only
CellAtStart == IF calls.write = 0 THEN tgtCell[recordIds[1]] ELSE preCell

\* C34: in a run with overwrite = false after a run in which the record
\* ended as success, while the target cell of the record holds at least one
\* attachment, no fetch, no upload and no write is made for the record; when
\* its source cell yields a valid URL again and the read of its target cell
\* returns, the record is classified skipped.
C34_RerunSkipsConverted ==
  (/\ AfterSuccess /\ ~overwrite /\ pc # "getRecords"
   /\ CellAtStart # <<>>) =>
     /\ calls.relay = 0 /\ calls.direct = 0 /\ calls.upload = 0
     /\ calls.write = 0
     /\ pc \notin {"relayGet", "directGet", "checkResponse", "readBody",
                    "getField", "upload", "write", "verifyRead"}
     /\ (Decided /\ calls.tgt = 1 /\ "tgt" \notin raised) =>
           (outcome = "skipped" /\ successCount = 0 /\ failedCount = 0)

C34_Witness ==
  /\ AfterSuccess /\ ~runs[1].overwrite /\ ~overwrite /\ pc = "done"
  /\ outcome = "skipped" /\ calls.tgt = 1 /\ calls.relay = 0
  /\ Len(tgtCell[1]) = 1 /\ nextToken = 2 /\ recordIds = <<1>>

\* C35: every sequence handed to setCellValue holds exactly one attachment
\* record, with overwrite and without: a record with overwrite = false whose
\* target cell read gave a non-empty list was skipped before, so the branch
\* that appends to the existing attachments is not taken.
C35_WritesOneAttachment ==
  /\ calls.write >= 1 =>
       /\ Len(attachmentsToSet) = 1
       /\ overwrite \/ ~IsList(currentAttachments)
            \/ Len(currentAttachments.items) = 0
  /\ pc \in {"relayGet", "directGet", "checkResponse", "readBody", "getField",
              "upload", "write"} =>
       ~(~overwrite /\ IsList(currentAttachments)
           /\ Len(currentAttachments.items) > 0)

C35_Witness ==
  /\ calls.write = 1 /\ ~overwrite /\ currentAttachments = ListValue(<<>>)
  /\ Len(attachmentsToSet) = 1 /\ pc = "verifyRead"

\* the read-back after the write holds other attachments than the cell held
\* when the record started
ReadBackChanged ==
  IsList(verifyAttachments) /\ verifyAttachments.items # preCell

\* C36: whenever a record is classified success after the read-back, the
\* read-back holds the new upload token or differs from what the cell held
\* before the write; a write with overwrite = true that returns and leaves
\* the cell with its old attachments only is not classified success.
C36_SuccessMeansWritten ==
  (/\ version \in HasVerify /\ outcome = "success"
   /\ calls.verify = 1 /\ "verify" \notin raised) =>
     (HasNewAttachment(verifyAttachments, fileToken) \/ ReadBackChanged)

\* every attachment of the sequence before is in the sequence after
KeepsAll(before, after) ==
  \A k \in 1..Len(before) : \E j \in 1..Len(after) : after[j] = before[k]

\* C37: with overwrite = false a write of the driver that returns removes no
\* attachment the target cell held when the write was made, an attachment
\* another actor added after the driver read the cell included.
C37_NoLostUpdate ==
  [][(/\ pc = "write" /\ ~overwrite
      /\ calls'.write = calls.write + 1 /\ raised' = raised) =>
        LET r == recordIds[i + 1] IN KeepsAll(tgtCell[r], tgtCell'[r])]_vars

\* C38: a call of handleConvert without tableId, viewId, urlFieldId or
\* attachmentFieldId returns at the validation: no host call and no fetch is
\* made, processing is not set to true and the progress counters are left as
\* they were, in a first call and in a call after a run; a call with the
\* four values starts processing.
C38_IncompleteFormNoEffect ==
  [][(pc \in {"idle", "done"} /\ pc' # pc) =>
       IF \A f \in DOMAIN values' : values'[f]
       THEN pc' = "getRecords" /\ processing'
       ELSE /\ pc' = "rejected" /\ ~processing'
            /\ UNCHANGED <<hostVars, progress, processing, calls, raised,
                           countVars, recordIds, localVars, relay, run2>>]_vars

C38_Witness ==
  /\ pc = "rejected" /\ values.tableId /\ ~values.viewId
  /\ runs = <<>> /\ recordIds = <<1>> /\ progress.total = 1
  /\ progress.success = 1 /\ calls.write = 1 /\ ~processing

====
